---- MODULE Spec2Model ----
(***************************************************************************)
(* Loan front end: the loan-creation form (Loans) with its amortization    *)
(* preview, the delinquency list (LatePayments) with its days-late         *)
(* computation, filter and tier display, the login / sign-up form          *)
(* (LoginPage), and the daily collection list (DailyCollections) with its  *)
(* payment modal, and the team list (UsersManager) with its deletions.     *)
(* The PDF export of DailyCollections makes no remote call and is left     *)
(* out; so is the creation of a collector in UsersManager.                 *)
(*                                                                         *)
(* JavaScript numbers are modelled as exact rationals extended with NaN    *)
(* and +/-Infinity: every equality between numbers below is an equality of *)
(* exact values, i.e. it abstracts the IEEE-754 rounding of each           *)
(* operation.  Form field texts are sequences of one-character strings.    *)
(* Timestamps are held in seconds (getTime() / 1000) so that 31 days fit   *)
(* 32-bit integers.                                                        *)
(***************************************************************************)
EXTENDS Integers, Sequences, FiniteSets, Bags, TLC

VARIABLES
    \* ---- Loans (src/unnamed/part_002)
    user,            \* useAuth().user: NoUser or a user id
    clients,         \* clients state: the set of active client ids fetched
    loansLoading,    \* loading state of Loans
    creating,        \* creating state
    newLoan,         \* newLoan state: the form's fields
    calc,            \* locals of the running handleCreateLoan (NoCalc when none runs)
    request,         \* the row of the loans insert in flight (NoRequest when none)
    loansAlert,      \* the last alert() raised by Loans
    \* ---- LatePayments (src/unnamed/part_000)
    clock,           \* the wall clock, new Date().getTime()
    latePayments,    \* latePayments state
    lateLoading,     \* loading state of LatePayments
    filter,          \* filter state
    view,            \* what the last render put on screen
    waMessage,       \* the last message opened by sendWhatsApp
    \* ---- LoginPage (src/src/components/LoginPage.tsx)
    isLogin,         \* isLogin state: login mode (TRUE) or sign-up mode
    adminCode,       \* adminCode state
    showAdminCode,   \* showAdminCode state: the admin checkbox
    error,           \* error state: the message under the form ("" when none)
    loginLoading,    \* loading state of LoginPage
    lpc,             \* the await the running handleSubmit is at ("idle" when none runs)
    role,            \* the role constant of the running sign-up
    signUpCall,      \* the options.data of the auth.signUp call of the last submit
    profileRow,      \* the profiles row inserted by the last submit
    loginCall,       \* the user passed to login() by the last submit
    steps,           \* history of the last submit: the outcomes of its remote calls
    \* ---- DailyCollections (src/unnamed/part_001)
    collections,       \* collections state
    colLoading,        \* loading state of DailyCollections
    colFetches,        \* fetchCollections calls awaiting their response
    selectedCollection, \* selectedCollection state: <<>> for null
    paymentAmount,     \* paymentAmount state: the text of the amount input
    paymentMethod,     \* paymentMethod state
    rpcs,              \* register_payment_final calls awaiting their response (a bag)
    colAlert,          \* the last alert() raised by DailyCollections
    colErrors,         \* parity of the number of console.error calls of DailyCollections
    payCalls,          \* parity of the number of handlePayment invocations
    clientDetails,     \* clientDetails state: <<>> for null
    detailReqs,        \* clients_summary selects awaiting their response (a bag of
                       \* the collections they were started for)
    \* ---- UsersManager (src/src/components/LoginPage.tsx)
    users,             \* users state
    umLoading,         \* loading state of UsersManager: fetchTeam awaits its response
    delReqs,           \* profiles deletes awaiting their response (a bag of the id and
                       \* the users list their handler captured)
    umAlert,           \* the last alert() raised by UsersManager
    lastConfirm,       \* the last confirm() dialog: parity of their number, and the answer
    profilesTable      \* the ids of the rows of the remote profiles table

loansVars == <<user, clients, loansLoading, creating, newLoan, calc, request, loansAlert>>
lateVars == <<clock, latePayments, lateLoading, filter, view, waMessage>>
loginVars == <<isLogin, adminCode, showAdminCode, error, loginLoading, lpc, role,
               signUpCall, profileRow, loginCall, steps>>
colVars == <<collections, colLoading, colFetches, selectedCollection, paymentAmount,
             paymentMethod, rpcs, colAlert, colErrors, payCalls, clientDetails,
             detailReqs>>
usersVars == <<users, umLoading, delReqs, umAlert, lastConfirm, profilesTable>>
vars == <<loansVars, lateVars, loginVars, colVars, usersVars>>

\* what each component leaves alone
notLoans == <<lateVars, loginVars, colVars, usersVars>>
notLate == <<loansVars, loginVars, colVars, usersVars>>
notLogin == <<loansVars, lateVars, colVars, usersVars>>
notCollections == <<loansVars, lateVars, loginVars, usersVars>>
notUsers == <<loansVars, lateVars, loginVars, colVars>>

(***************************************************************************)
(* JavaScript numbers                                                      *)
(***************************************************************************)
Abs(x) == IF x < 0 THEN -x ELSE x

RECURSIVE GCD(_, _)
GCD(a, b) == IF b = 0 THEN a ELSE GCD(b, a % b)

RECURSIVE Pow10(_)
Pow10(e) == IF e = 0 THEN 1 ELSE 10 * Pow10(e - 1)

NaN == [k |-> "NaN", n |-> 0, d |-> 1]
Infinity(s) == [k |-> "Infinity", n |-> s, d |-> 1]

\* the finite number n / d, kept in lowest terms with a positive denominator
Num(n, d) ==
    LET s == IF d < 0 THEN -1 ELSE 1
        g == GCD(Abs(n), Abs(d))
    IN  [k |-> "num", n |-> (s * n) \div g, d |-> (s * d) \div g]

Whole(i) == Num(i, 1)

IsNaN(x) == x.k = "NaN"
IsFinite(x) == x.k = "num"
Sign(x) == IF x.n > 0 THEN 1 ELSE IF x.n < 0 THEN -1 ELSE 0
IsZero(x) == IsFinite(x) /\ x.n = 0

\* a * b
Mul(a, b) ==
    IF IsNaN(a) \/ IsNaN(b) THEN NaN
    ELSE IF IsFinite(a) /\ IsFinite(b) THEN Num(a.n * b.n, a.d * b.d)
    ELSE IF IsZero(a) \/ IsZero(b) THEN NaN
    ELSE Infinity(Sign(a) * Sign(b))

\* a / b (a zero divisor is +0: no field text of the model parses to -0)
Div(a, b) ==
    IF IsNaN(a) \/ IsNaN(b) THEN NaN
    ELSE IF IsFinite(a) /\ IsFinite(b) THEN
        IF b.n # 0 THEN Num(a.n * b.d, a.d * b.n)
        ELSE IF a.n = 0 THEN NaN ELSE Infinity(Sign(a))
    ELSE IF IsFinite(a) THEN Whole(0)
    ELSE IF IsFinite(b) THEN Infinity(Sign(a) * (IF Sign(b) < 0 THEN -1 ELSE 1))
    ELSE NaN

\* a + b
Add(a, b) ==
    IF IsNaN(a) \/ IsNaN(b) THEN NaN
    ELSE IF IsFinite(a) /\ IsFinite(b) THEN Num(a.n * b.d + b.n * a.d, a.d * b.d)
    ELSE IF IsFinite(a) THEN b
    ELSE IF IsFinite(b) THEN a
    ELSE IF a.n = b.n THEN a ELSE NaN

\* a >= b on finite numbers; any comparison with NaN is false
Geq(a, b) ==
    /\ IsFinite(a)
    /\ IsFinite(b)
    /\ a.n * b.d >= b.n * a.d

\* ToBoolean on a number: NaN and 0 are falsy
Truthy(x) == ~IsNaN(x) /\ ~IsZero(x)

\* x || y
OrElse(x, y) == IF Truthy(x) THEN x ELSE y

(***************************************************************************)
(* parseFloat and parseInt on a field text                                 *)
(***************************************************************************)
DigitChars == <<"0", "1", "2", "3", "4", "5", "6", "7", "8", "9">>

IsDigit(c) == \E i \in 1..10 : DigitChars[i] = c
DigitVal(c) == (CHOOSE i \in 1..10 : DigitChars[i] = c) - 1

\* the number of digits of s from position i on
RECURSIVE DigitsLen(_, _)
DigitsLen(s, i) ==
    IF i <= Len(s) /\ IsDigit(s[i]) THEN 1 + DigitsLen(s, i + 1) ELSE 0

\* the value of the len digits of s from position i on
RECURSIVE DigitsVal(_, _, _)
DigitsVal(s, i, len) ==
    IF len = 0 THEN 0
    ELSE 10 * DigitsVal(s, i, len - 1) + DigitVal(s[i + len - 1])

HasSign(s, i) == i <= Len(s) /\ s[i] \in {"-", "+"}
SignAt(s, i) == IF i <= Len(s) /\ s[i] = "-" THEN -1 ELSE 1

\* parseInt(s) with no radix: an optional sign and the longest run of
\* decimal digits; NaN when there is no digit
parseInt(s) ==
    LET p == IF HasSign(s, 1) THEN 2 ELSE 1
        il == DigitsLen(s, p)
    IN  IF il = 0 THEN NaN ELSE Whole(SignAt(s, 1) * DigitsVal(s, p, il))

\* parseFloat(s): the longest prefix that is a decimal literal
\* [sign] digits [. digits] [e [sign] digits]; NaN when there is none
parseFloat(s) ==
    LET p == IF HasSign(s, 1) THEN 2 ELSE 1
        il == DigitsLen(s, p)
        dot == p + il
        hasDot == dot <= Len(s) /\ s[dot] = "."
        fl == IF hasDot THEN DigitsLen(s, dot + 1) ELSE 0
        ex == IF hasDot THEN dot + 1 + fl ELSE dot
        ep == IF HasSign(s, ex + 1) THEN ex + 2 ELSE ex + 1
        el == IF ex <= Len(s) /\ s[ex] \in {"e", "E"} THEN DigitsLen(s, ep) ELSE 0
        e == SignAt(s, ex + 1) * DigitsVal(s, ep, el)
        mant == DigitsVal(s, p, il) * Pow10(fl) + DigitsVal(s, dot + 1, fl)
    IN  IF il = 0 /\ fl = 0 THEN NaN
        ELSE IF e >= 0 THEN Num(SignAt(s, 1) * mant * Pow10(e), Pow10(fl))
        ELSE Num(SignAt(s, 1) * mant, Pow10(fl) * Pow10(-e))

(***************************************************************************)
(* Loans: the loan-creation form                                           *)
(***************************************************************************)
NoUser == ""
UserIds == {"u1"}
ClientIds == {"c1"}
Empty == <<>>

\* texts a number input can hold: the empty text or a decimal literal
CapitalTexts == {Empty, <<"0">>, <<"1", "0", "0", "0">>, <<"2", ".", "5">>, <<"1", "e", "3">>}
RateTexts == {Empty, <<"0">>, <<"1", "0">>}
CountTexts == {Empty, <<"0">>, <<"2", "4">>, <<"-", "3">>}

\* the initial (and reset) value of the newLoan state
EmptyLoan ==
    [client_id |-> "",
     capital |-> Empty,
     interest_rate |-> <<"1", "0">>,
     payment_type |-> "DAILY",
     installments_count |-> <<"2", "4">>,
     start_date |-> "today",
     late_fee_enabled |-> TRUE]

\* CreateLoanCalc with the rate taken as a fraction, not a percentage
CreateLoanCalcNoPercent(nl) ==
    LET capital == parseFloat(nl.capital)
        rate == parseFloat(nl.interest_rate)
        count == parseInt(nl.installments_count)
        totalInterest == Mul(capital, rate)
        totalAmount == Add(capital, totalInterest)
        installmentValue == Div(totalAmount, count)
    IN  [capital |-> capital, rate |-> rate, count |-> count,
         totalInterest |-> totalInterest, totalAmount |-> totalAmount,
         installmentValue |-> installmentValue]

\* the arithmetic of handleCreateLoan on the form's fields
CreateLoanCalc(nl) ==
    LET capital == parseFloat(nl.capital)
        rate == parseFloat(nl.interest_rate)
        count == parseInt(nl.installments_count)
        totalInterest == Mul(capital, Div(rate, Whole(100)))
        totalAmount == Add(capital, totalInterest)
        installmentValue == Div(totalAmount, count)
    IN  [capital |-> capital, rate |-> rate, count |-> count,
         totalInterest |-> totalInterest, totalAmount |-> totalAmount,
         installmentValue |-> installmentValue]

\* PreviewCalc with the installment taken from the capital, not the total
PreviewCalcNoInterest(nl) ==
    LET capital == OrElse(parseFloat(nl.capital), Whole(0))
        rate == OrElse(parseFloat(nl.interest_rate), Whole(0))
        count == OrElse(parseInt(nl.installments_count), Whole(1))
        totalInterest == Mul(capital, Div(rate, Whole(100)))
        totalAmount == Add(capital, totalInterest)
        installmentValue == Div(capital, count)
    IN  [capital |-> capital, rate |-> rate, count |-> count,
         totalInterest |-> totalInterest, totalAmount |-> totalAmount,
         installmentValue |-> installmentValue]

\* PreviewCalc with the form's default rate as the fallback of the rate
PreviewCalcDefaultRate(nl) ==
    LET capital == OrElse(parseFloat(nl.capital), Whole(0))
        rate == OrElse(parseFloat(nl.interest_rate), Whole(10))
        count == OrElse(parseInt(nl.installments_count), Whole(1))
        totalInterest == Mul(capital, Div(rate, Whole(100)))
        totalAmount == Add(capital, totalInterest)
        installmentValue == Div(totalAmount, count)
    IN  [capital |-> capital, rate |-> rate, count |-> count,
         totalInterest |-> totalInterest, totalAmount |-> totalAmount,
         installmentValue |-> installmentValue]

\* the calculation preview computed at every render of Loans
PreviewCalc(nl) ==
    LET capital == OrElse(parseFloat(nl.capital), Whole(0))
        rate == OrElse(parseFloat(nl.interest_rate), Whole(0))
        count == OrElse(parseInt(nl.installments_count), Whole(1))
        totalInterest == Mul(capital, Div(rate, Whole(100)))
        totalAmount == Add(capital, totalInterest)
        installmentValue == Div(totalAmount, count)
    IN  [capital |-> capital, rate |-> rate, count |-> count,
         totalInterest |-> totalInterest, totalAmount |-> totalAmount,
         installmentValue |-> installmentValue]

\* the preview on screen: React renders again after every state change
preview == PreviewCalc(newLoan)

\* LoanRow with the computed totals stored beside the terms
LoanRowWithTotals(nl, c, u) ==
    [client_id |-> nl.client_id,
     capital |-> c.capital,
     interest_rate |-> c.rate,
     payment_type |-> nl.payment_type,
     installments_count |-> c.count,
     start_date |-> nl.start_date,
     late_fee_enabled |-> nl.late_fee_enabled,
     status |-> "ACTIVE",
     created_by |-> u,
     total_amount |-> c.totalAmount,
     installment_value |-> c.installmentValue]

\* the row handleCreateLoan inserts into loans
LoanRow(nl, c, u) ==
    [client_id |-> nl.client_id,
     capital |-> c.capital,
     interest_rate |-> c.rate,
     payment_type |-> nl.payment_type,
     installments_count |-> c.count,
     start_date |-> nl.start_date,
     late_fee_enabled |-> nl.late_fee_enabled,
     status |-> "ACTIVE",
     created_by |-> u]

\* the form is rendered once the clients are loaded and there is one
FormShown == ~loansLoading /\ clients # {}

\* the browser's constraint validation: every required control has a value
RequiredFilled(nl) ==
    /\ nl.client_id # ""
    /\ nl.capital # Empty
    /\ nl.interest_rate # Empty
    /\ nl.installments_count # Empty
    /\ nl.start_date # ""

LoansInit ==
    /\ user \in UserIds \cup {NoUser}
    /\ clients = {}
    /\ loansLoading = TRUE
    /\ creating = FALSE
    /\ newLoan = EmptyLoan
    /\ calc = <<>>
    /\ request = <<>>
    /\ loansAlert = "none"

\* useAuth: the session starts or ends
authChange ==
    /\ user' \in (UserIds \cup {NoUser}) \ {user}
    /\ UNCHANGED <<clients, loansLoading, creating, newLoan, calc, request, loansAlert>>
    /\ UNCHANGED notLoans

\* fetchClients: the response arrives with the active clients
fetchClientsOk ==
    /\ loansLoading
    /\ \E data \in SUBSET ClientIds : clients' = data
    /\ loansLoading' = FALSE
    /\ UNCHANGED <<user, creating, newLoan, calc, request, loansAlert>>
    /\ UNCHANGED notLoans

\* fetchClients: the request fails (console.error only)
fetchClientsFail ==
    /\ loansLoading
    /\ loansLoading' = FALSE
    /\ UNCHANGED <<user, clients, creating, newLoan, calc, request, loansAlert>>
    /\ UNCHANGED notLoans

setClient ==
    /\ FormShown
    /\ \E c \in clients \cup {""} : newLoan' = [newLoan EXCEPT !.client_id = c]
    /\ UNCHANGED <<user, clients, loansLoading, creating, calc, request, loansAlert>>
    /\ UNCHANGED notLoans

setCapital ==
    /\ FormShown
    /\ \E t \in CapitalTexts : newLoan' = [newLoan EXCEPT !.capital = t]
    /\ UNCHANGED <<user, clients, loansLoading, creating, calc, request, loansAlert>>
    /\ UNCHANGED notLoans

setInterestRate ==
    /\ FormShown
    /\ \E t \in RateTexts : newLoan' = [newLoan EXCEPT !.interest_rate = t]
    /\ UNCHANGED <<user, clients, loansLoading, creating, calc, request, loansAlert>>
    /\ UNCHANGED notLoans

setInstallmentsCount ==
    /\ FormShown
    /\ \E t \in CountTexts : newLoan' = [newLoan EXCEPT !.installments_count = t]
    /\ UNCHANGED <<user, clients, loansLoading, creating, calc, request, loansAlert>>
    /\ UNCHANGED notLoans

\* the form is submitted: handleCreateLoan up to its await
handleCreateLoan ==
    /\ FormShown
    /\ ~creating
    /\ RequiredFilled(newLoan)
    /\ IF newLoan.client_id = "" THEN
            /\ loansAlert' = "selectClient"
            /\ UNCHANGED <<creating, calc, request>>
       ELSE IF user = NoUser THEN
            /\ loansAlert' = "authError"
            /\ UNCHANGED <<creating, calc, request>>
       ELSE
            /\ creating' = TRUE
            /\ calc' = <<CreateLoanCalc(newLoan)>>
            /\ request' = <<LoanRow(newLoan, CreateLoanCalc(newLoan), user)>>
            /\ UNCHANGED loansAlert
    /\ UNCHANGED <<user, clients, loansLoading, newLoan>>
    /\ UNCHANGED notLoans

\* the insert succeeds: the form is reset
insertOk ==
    /\ request # <<>>
    /\ newLoan' = EmptyLoan
    /\ loansAlert' = "created"
    /\ creating' = FALSE
    /\ calc' = <<>>
    /\ request' = <<>>
    /\ UNCHANGED <<user, clients, loansLoading>>
    /\ UNCHANGED notLoans

\* the insert fails: the form is kept
insertFail ==
    /\ request # <<>>
    /\ loansAlert' = "createError"
    /\ creating' = FALSE
    /\ calc' = <<>>
    /\ request' = <<>>
    /\ UNCHANGED <<user, clients, loansLoading, newLoan>>
    /\ UNCHANGED notLoans

(***************************************************************************)
(* LatePayments: the delinquency list                                      *)
(***************************************************************************)
\* 1000 * 60 * 60 * 24 ms, in seconds
DayLength == 60 * 60 * 24

\* the longest list late_payments_summary returns
MaxEntries == 2

\* oldestDueDate values: calendar dates, as days since the epoch
DueDates == {1, 24}

\* the midnights the clock is observed around: one second before each, and at it
Boundaries == {1, 4, 8, 31}
Instants == UNION {{b * DayLength - 1, b * DayLength} : b \in Boundaries}

FirstInstant == CHOOSE t \in Instants : \A u \in Instants : t <= u

\* the readings a later new Date() of the same render can give
ClockAfter(t) == {t} \cup ({t + 1} \cap Instants)

\* new Date(date).getTime(): a date-only text is midnight UTC of that day
DateGetTime(date) == date * DayLength

\* getDaysLate(date), now being the reading new Date().getTime() gives the call
getDaysLate(date, now) ==
    LET diff == now - DateGetTime(date)
    IN  diff \div DayLength

\* MatchesFilter with strict comparisons
MatchesFilterStrict(days, f) ==
    IF f = 3 THEN days > 3
    ELSE IF f = 7 THEN days > 7
    ELSE IF f = 30 THEN days > 30
    ELSE TRUE

\* the predicate filteredLate keeps an entry by
MatchesFilter(days, f) ==
    IF f = 3 THEN days >= 3
    ELSE IF f = 7 THEN days >= 7
    ELSE IF f = 30 THEN days >= 30
    ELSE TRUE

filteredLate(lps, f, now) ==
    SelectSeq(lps, LAMBDA lp : MatchesFilter(getDaysLate(lp.oldestDueDate, now), f))

isCritical(days) == days >= 30

\* isWarning with a strict comparison
isWarningStrict(days) == days > 7

\* isWarning with the filter's 3-day threshold
isWarningAtThree(days) == days >= 3

isWarning(days) == days >= 7

\* Tier with the rose and amber styles exchanged
TierSwapped(days) ==
    IF isCritical(days) THEN "WARNING"
    ELSE IF isWarning(days) THEN "CRITICAL"
    ELSE "CURRENT"

\* the style a row is given: rose, amber or blue
Tier(days) ==
    IF isCritical(days) THEN "CRITICAL"
    ELSE IF isWarning(days) THEN "WARNING"
    ELSE "CURRENT"

\* one render of LatePayments: the filter reads the clock at filterNow, the rows at now
Render(lps, f, ld, filterNow, now) ==
    LET shown == filteredLate(lps, f, filterNow)
    IN  [filterAt |-> filterNow,
         at |-> now,
         rows |-> IF ld THEN <<>>
                  ELSE [i \in 1..Len(shown) |->
                          [clientId |-> shown[i].clientId,
                           oldestDueDate |-> shown[i].oldestDueDate,
                           filterDays |-> getDaysLate(shown[i].oldestDueDate, filterNow),
                           days |-> getDaysLate(shown[i].oldestDueDate, now),
                           tier |-> Tier(getDaysLate(shown[i].oldestDueDate, now))]]]

\* the lists late_payments_summary can return: one entry per client
LateLists ==
    UNION {{[i \in 1..n |-> [clientId |-> i, oldestDueDate |-> due[i]]] :
                due \in [1..n -> DueDates]} : n \in 0..MaxEntries}

LateInit ==
    /\ clock = FirstInstant
    /\ latePayments = <<>>
    /\ lateLoading = TRUE
    /\ filter = 0
    /\ view = Render(<<>>, 0, TRUE, clock, clock)
    /\ waMessage = <<>>

\* time passes
tick ==
    /\ \E t \in Instants : t > clock /\ clock' = t
    /\ UNCHANGED <<latePayments, lateLoading, filter, view, waMessage>>
    /\ UNCHANGED notLate

\* fetchLate: the response arrives with the list
fetchLateOk ==
    /\ lateLoading
    /\ \E data \in LateLists : latePayments' = data
    /\ lateLoading' = FALSE
    /\ \E now \in ClockAfter(clock) :
          /\ clock' = now
          /\ view' = Render(latePayments', filter, FALSE, clock, now)
    /\ UNCHANGED <<filter, waMessage>>
    /\ UNCHANGED notLate

\* fetchLate: the request fails (console.error only)
fetchLateFail ==
    /\ lateLoading
    /\ lateLoading' = FALSE
    /\ \E now \in ClockAfter(clock) :
          /\ clock' = now
          /\ view' = Render(latePayments, filter, FALSE, clock, now)
    /\ UNCHANGED <<latePayments, filter, waMessage>>
    /\ UNCHANGED notLate

\* setFilter with a +15 DIAS button among the buttons
setFilterOther ==
    /\ ~lateLoading
    /\ \E f \in {0, 3, 7, 15, 30} :
          /\ f # filter
          /\ filter' = f
          /\ \E now \in ClockAfter(clock) :
                /\ clock' = now
                /\ view' = Render(latePayments, f, FALSE, clock, now)
    /\ UNCHANGED <<latePayments, lateLoading, waMessage>>
    /\ UNCHANGED notLate

\* a filter button is pressed
setFilter ==
    /\ ~lateLoading
    /\ \E f \in {0, 3, 7, 30} :
          /\ f # filter
          /\ filter' = f
          /\ \E now \in ClockAfter(clock) :
                /\ clock' = now
                /\ view' = Render(latePayments, f, FALSE, clock, now)
    /\ UNCHANGED <<latePayments, lateLoading, waMessage>>
    /\ UNCHANGED notLate

\* the WhatsApp button of a row is pressed
sendWhatsApp ==
    /\ ~lateLoading
    /\ \E i \in 1..Len(view.rows) :
          waMessage' = <<[clientId |-> view.rows[i].clientId,
                          days |-> getDaysLate(view.rows[i].oldestDueDate, clock)]>>
    /\ UNCHANGED <<clock, latePayments, lateLoading, filter, view>>
    /\ UNCHANGED notLate

(***************************************************************************)
(* LoginPage: login and sign-up                                            *)
(***************************************************************************)
\* the ids auth can return, the roles of UserRole, the texts of the code input
AuthIds == {"u1"}
Roles == {"ADMIN", "COLLECTOR"}
AdminCodes == {"", "admin123", "admin12"}

\* RoleFor without the checkbox: the code alone decides
RoleForCodeOnly(show, code) ==
    IF code = "admin123" THEN "ADMIN" ELSE "COLLECTOR"

\* the role constant of a sign-up
RoleFor(show, code) ==
    IF show /\ code = "admin123" THEN "ADMIN" ELSE "COLLECTOR"

LoginInit ==
    /\ isLogin = TRUE
    /\ adminCode = ""
    /\ showAdminCode = FALSE
    /\ error = ""
    /\ loginLoading = FALSE
    /\ lpc = "idle"
    /\ role = "COLLECTOR"
    /\ signUpCall = <<>>
    /\ profileRow = <<>>
    /\ loginCall = <<>>
    /\ steps = <<>>

\* the link under the form: the other mode
toggleMode ==
    /\ isLogin' = ~isLogin
    /\ error' = ""
    /\ UNCHANGED <<adminCode, showAdminCode, loginLoading, lpc, role, signUpCall,
                   profileRow, loginCall, steps>>
    /\ UNCHANGED notLogin

\* the admin checkbox, shown in sign-up mode
setShowAdminCode ==
    /\ ~isLogin
    /\ showAdminCode' = ~showAdminCode
    /\ UNCHANGED <<isLogin, adminCode, error, loginLoading, lpc, role, signUpCall,
                   profileRow, loginCall, steps>>
    /\ UNCHANGED notLogin

\* the admin code input, shown in sign-up mode while the checkbox is checked
setAdminCode ==
    /\ ~isLogin
    /\ showAdminCode
    /\ \E c \in AdminCodes : adminCode' = c
    /\ UNCHANGED <<isLogin, showAdminCode, error, loginLoading, lpc, role, signUpCall,
                   profileRow, loginCall, steps>>
    /\ UNCHANGED notLogin

\* the form is submitted: handleSubmit up to its first await
handleSubmit ==
    /\ ~loginLoading
    /\ error' = ""
    /\ loginLoading' = TRUE
    /\ steps' = <<>>
    /\ profileRow' = <<>>
    /\ loginCall' = <<>>
    /\ IF isLogin THEN
            /\ lpc' = "signIn"
            /\ signUpCall' = <<>>
            /\ UNCHANGED role
       ELSE
            /\ lpc' = "signUp"
            /\ role' = RoleFor(showAdminCode, adminCode)
            /\ signUpCall' = <<[role |-> RoleFor(showAdminCode, adminCode)]>>
    /\ UNCHANGED <<isLogin, adminCode, showAdminCode>>
    /\ UNCHANGED notLogin

\* signInWithPassword fails: the catch and the finally
signInFail ==
    /\ lpc = "signIn"
    /\ steps' = Append(steps, "signInFail")
    /\ error' = "authError"
    /\ loginLoading' = FALSE
    /\ lpc' = "idle"
    /\ UNCHANGED <<isLogin, adminCode, showAdminCode, role, signUpCall, profileRow, loginCall>>
    /\ UNCHANGED notLogin

\* signInWithPassword succeeds with a user: the profile is fetched
signInOk ==
    /\ lpc = "signIn"
    /\ steps' = Append(steps, "signInOk")
    /\ lpc' = "profile"
    /\ UNCHANGED <<isLogin, adminCode, showAdminCode, error, loginLoading, role,
                   signUpCall, profileRow, loginCall>>
    /\ UNCHANGED notLogin

\* signInWithPassword returns neither an error nor a user
signInNoUser ==
    /\ lpc = "signIn"
    /\ steps' = Append(steps, "signInNoUser")
    /\ loginLoading' = FALSE
    /\ lpc' = "idle"
    /\ UNCHANGED <<isLogin, adminCode, showAdminCode, error, role, signUpCall,
                   profileRow, loginCall>>
    /\ UNCHANGED notLogin

\* profileFail with the user built from the auth metadata instead
profileFailFallback ==
    /\ lpc = "profile"
    /\ steps' = steps \o <<"profileFail", "login">>
    /\ \E id \in AuthIds, r \in Roles : loginCall' = <<[id |-> id, role |-> r]>>
    /\ loginLoading' = FALSE
    /\ lpc' = "idle"
    /\ UNCHANGED <<isLogin, adminCode, showAdminCode, error, role, signUpCall, profileRow>>
    /\ UNCHANGED notLogin

\* the profile fetch fails: the throw, the catch and the finally
profileFail ==
    /\ lpc = "profile"
    /\ steps' = Append(steps, "profileFail")
    /\ error' = "profileError"
    /\ loginLoading' = FALSE
    /\ lpc' = "idle"
    /\ UNCHANGED <<isLogin, adminCode, showAdminCode, role, signUpCall, profileRow, loginCall>>
    /\ UNCHANGED notLogin

\* the profile fetch succeeds: login(user) with the profile's role
profileOk ==
    /\ lpc = "profile"
    /\ steps' = steps \o <<"profileOk", "login">>
    /\ \E id \in AuthIds, r \in Roles : loginCall' = <<[id |-> id, role |-> r]>>
    /\ loginLoading' = FALSE
    /\ lpc' = "idle"
    /\ UNCHANGED <<isLogin, adminCode, showAdminCode, error, role, signUpCall, profileRow>>
    /\ UNCHANGED notLogin

\* auth.signUp fails: the catch and the finally
signUpFail ==
    /\ lpc = "signUp"
    /\ steps' = Append(steps, "signUpFail")
    /\ error' = "signUpError"
    /\ loginLoading' = FALSE
    /\ lpc' = "idle"
    /\ UNCHANGED <<isLogin, adminCode, showAdminCode, role, signUpCall, profileRow, loginCall>>
    /\ UNCHANGED notLogin

\* auth.signUp returns neither an error nor a user
signUpNoUser ==
    /\ lpc = "signUp"
    /\ steps' = Append(steps, "signUpNoUser")
    /\ loginLoading' = FALSE
    /\ lpc' = "idle"
    /\ UNCHANGED <<isLogin, adminCode, showAdminCode, error, role, signUpCall,
                   profileRow, loginCall>>
    /\ UNCHANGED notLogin

\* auth.signUp succeeds with a user: the profiles row is inserted
signUpOk ==
    /\ lpc = "signUp"
    /\ steps' = Append(steps, "signUpOk")
    /\ \E id \in AuthIds : profileRow' = <<[id |-> id, role |-> role]>>
    /\ lpc' = "insert"
    /\ UNCHANGED <<isLogin, adminCode, showAdminCode, error, loginLoading, role,
                   signUpCall, loginCall>>
    /\ UNCHANGED notLogin

\* the message of a successful sign-up
CreatedMessage(r) == IF r = "ADMIN" THEN "createdAdmin" ELSE "created"

\* the profiles insert returns, without error
profileInsertOk ==
    /\ lpc = "insert"
    /\ steps' = Append(steps, "profileInsertOk")
    /\ isLogin' = TRUE
    /\ error' = CreatedMessage(role)
    /\ loginLoading' = FALSE
    /\ lpc' = "idle"
    /\ UNCHANGED <<adminCode, showAdminCode, role, signUpCall, profileRow, loginCall>>
    /\ UNCHANGED notLogin

\* profileInsertFail with the error reported and the form left in sign-up mode
profileInsertFailBlocking ==
    /\ lpc = "insert"
    /\ steps' = Append(steps, "profileInsertFail")
    /\ error' = "profileInsertError"
    /\ loginLoading' = FALSE
    /\ lpc' = "idle"
    /\ UNCHANGED <<isLogin, adminCode, showAdminCode, role, signUpCall, profileRow, loginCall>>
    /\ UNCHANGED notLogin

\* the profiles insert returns an error (console.error only)
profileInsertFail ==
    /\ lpc = "insert"
    /\ steps' = Append(steps, "profileInsertFail")
    /\ isLogin' = TRUE
    /\ error' = CreatedMessage(role)
    /\ loginLoading' = FALSE
    /\ lpc' = "idle"
    /\ UNCHANGED <<adminCode, showAdminCode, role, signUpCall, profileRow, loginCall>>
    /\ UNCHANGED notLogin

(***************************************************************************)
(* DailyCollections: the list of the day and the payment modal             *)
(***************************************************************************)
MaxInFlight == 2
MaxFetches == 2
MaxDetailReqs == 1

\* rows of daily_collection_list, as mapped by fetchCollections
ItemA == [installmentId |-> "i1", clientName |-> "Ana", pending_value |-> Whole(100),
          loanCapital |-> 1000, loanDebt |-> 500]
ItemB == [installmentId |-> "i2", clientName |-> "Bia", pending_value |-> Whole(0),
          loanCapital |-> 0, loanDebt |-> 0]

\* the clients_summary row of a client
SummaryOf(name) ==
    IF name = "Ana" THEN [totalLoaned |-> 1000, totalDebt |-> 600]
    ELSE [totalLoaned |-> 300, totalDebt |-> 200]

\* the totals of the view row, used when the summary select fails
FallbackOf(sel) == [totalLoaned |-> sel.loanCapital, totalDebt |-> sel.loanDebt]
CollectionLists == {<<>>, <<ItemA, ItemB>>}
AmountTexts == {Empty, <<"0">>, <<"2", ".", "5">>, <<"-", "5">>}
PayTypes == {"FULL", "PARTIAL", "INTEREST"}
PayMethods == {"PIX", "CASH"}

\* PaymentAmountOf with the typed amount for every type
PaymentAmountTyped(type, sel, text) == parseFloat(text)

\* the amount of a payment of the given type
PaymentAmountOf(type, sel, text) ==
    IF type = "FULL" THEN sel.pending_value ELSE parseFloat(text)

\* isNaN(amount) || amount <= 0
AmountRejected(amount) == IsNaN(amount) \/ Sign(amount) <= 0

\* the payload of the register_payment_final call
Payload(sel, amount, type, method, u) ==
    [p_installment_id |-> sel.installmentId,
     p_amount |-> amount,
     p_type |-> type,
     p_method |-> method,
     p_created_by |-> u]

\* the calls in flight, with one more / one less call of payload p
Issued(calls, p) == calls (+) SetToBag({p})
Answered(calls, p) == calls (-) SetToBag({p})
InFlight(calls) == BagCardinality(calls)

\* the modal is on screen
ModalShown == ~colLoading /\ selectedCollection # <<>>

CollectionsInit ==
    /\ collections = <<>>
    /\ colLoading = TRUE
    /\ colFetches = 1
    /\ selectedCollection = <<>>
    /\ paymentAmount = Empty
    /\ paymentMethod = "PIX"
    /\ rpcs = EmptyBag
    /\ colAlert = "none"
    /\ colErrors = 0
    /\ payCalls = 0
    /\ clientDetails = <<>>
    /\ detailReqs = EmptyBag

\* fetchCollections: the response arrives with the unpaid rows
fetchCollectionsOk ==
    /\ colFetches > 0
    /\ \E data \in CollectionLists : collections' = data
    /\ colLoading' = FALSE
    /\ colFetches' = colFetches - 1
    /\ UNCHANGED <<selectedCollection, paymentAmount, paymentMethod, rpcs, colAlert,
                   colErrors, payCalls>>
    /\ UNCHANGED <<clientDetails, detailReqs>>
    /\ UNCHANGED notCollections

\* fetchCollections: the response is an error (console.error only)
fetchCollectionsFail ==
    /\ colFetches > 0
    /\ colErrors' = 1 - colErrors
    /\ colLoading' = FALSE
    /\ colFetches' = colFetches - 1
    /\ UNCHANGED <<collections, selectedCollection, paymentAmount, paymentMethod, rpcs,
                   colAlert, payCalls>>
    /\ UNCHANGED <<clientDetails, detailReqs>>
    /\ UNCHANGED notCollections

\* the "Receber" button of a row; the effect on selectedCollection starts the
\* clients_summary select
selectCollection ==
    /\ ~colLoading
    /\ selectedCollection = <<>>
    /\ InFlight(detailReqs) < MaxDetailReqs
    /\ \E k \in 1..Len(collections) :
         /\ selectedCollection' = <<collections[k]>>
         /\ detailReqs' = Issued(detailReqs, collections[k])
    /\ UNCHANGED <<collections, colLoading, colFetches, paymentAmount, paymentMethod, rpcs,
                   colAlert, colErrors, payCalls, clientDetails>>
    /\ UNCHANGED notCollections

\* the close button of the modal; the effect on selectedCollection clears
\* clientDetails
closeModal ==
    /\ ModalShown
    /\ selectedCollection' = <<>>
    /\ UNCHANGED <<collections, colLoading, colFetches, paymentAmount, paymentMethod, rpcs,
                   colAlert, colErrors, payCalls>>
    /\ clientDetails' = <<>>
    /\ UNCHANGED detailReqs
    /\ UNCHANGED notCollections

\* the PIX and DINHEIRO buttons of the modal
setPaymentMethod ==
    /\ ModalShown
    /\ \E m \in PayMethods \ {paymentMethod} : paymentMethod' = m
    /\ UNCHANGED <<collections, colLoading, colFetches, selectedCollection, paymentAmount,
                   rpcs, colAlert, colErrors, payCalls>>
    /\ UNCHANGED <<clientDetails, detailReqs>>
    /\ UNCHANGED notCollections

\* the amount input of the modal
setPaymentAmount ==
    /\ ModalShown
    /\ \E t \in AmountTexts \ {paymentAmount} : paymentAmount' = t
    /\ UNCHANGED <<collections, colLoading, colFetches, selectedCollection, paymentMethod,
                   rpcs, colAlert, colErrors, payCalls>>
    /\ UNCHANGED <<clientDetails, detailReqs>>
    /\ UNCHANGED notCollections

\* one of the three payment buttons of the modal: handlePayment up to its await
handlePayment ==
    /\ ModalShown
    /\ InFlight(rpcs) < MaxInFlight
    /\ payCalls' = 1 - payCalls
    /\ \E type \in PayTypes :
         LET amount == PaymentAmountOf(type, selectedCollection[1], paymentAmount)
         IN  IF user = NoUser \/ AmountRejected(amount)
             THEN UNCHANGED rpcs
             ELSE rpcs' = Issued(rpcs, Payload(selectedCollection[1], amount, type,
                                               paymentMethod, user))
    /\ UNCHANGED <<collections, colLoading, colFetches, selectedCollection, paymentAmount,
                   paymentMethod, colAlert, colErrors>>
    /\ UNCHANGED <<clientDetails, detailReqs>>
    /\ UNCHANGED notCollections

\* the RPC returns without error: the modal is closed and the list refetched;
\* the effect on selectedCollection clears clientDetails when the selection
\* changes
rpcOk ==
    /\ colFetches < MaxFetches
    /\ \E p \in BagToSet(rpcs) : rpcs' = Answered(rpcs, p)
    /\ selectedCollection' = <<>>
    /\ paymentAmount' = Empty
    /\ colAlert' = "success"
    /\ colLoading' = TRUE
    /\ colFetches' = colFetches + 1
    /\ UNCHANGED <<collections, paymentMethod, colErrors, payCalls>>
    /\ clientDetails' = (IF selectedCollection # <<>> THEN <<>> ELSE clientDetails)
    /\ UNCHANGED detailReqs
    /\ UNCHANGED notCollections

\* rpcFail with the modal closed and the amount cleared
rpcFailClosing ==
    /\ \E p \in BagToSet(rpcs) : rpcs' = Answered(rpcs, p)
    /\ selectedCollection' = <<>>
    /\ paymentAmount' = Empty
    /\ colAlert' = "error"
    /\ UNCHANGED <<collections, colLoading, colFetches, paymentMethod, colErrors, payCalls>>
    /\ UNCHANGED <<clientDetails, detailReqs>>
    /\ UNCHANGED notCollections

\* the RPC returns an error: the alert of the catch
rpcFail ==
    /\ \E p \in BagToSet(rpcs) : rpcs' = Answered(rpcs, p)
    /\ colAlert' = "error"
    /\ UNCHANGED <<collections, colLoading, colFetches, selectedCollection, paymentAmount,
                   paymentMethod, colErrors, payCalls>>
    /\ UNCHANGED <<clientDetails, detailReqs>>
    /\ UNCHANGED notCollections

\* the clients_summary select returns the row of the client
detailsOk ==
    /\ \E sel \in BagToSet(detailReqs) :
         /\ detailReqs' = Answered(detailReqs, sel)
         /\ clientDetails' = <<SummaryOf(sel.clientName)>>
    /\ UNCHANGED <<collections, colLoading, colFetches, selectedCollection, paymentAmount,
                   paymentMethod, rpcs, colAlert, colErrors, payCalls>>
    /\ UNCHANGED notCollections

\* the clients_summary select fails: console.error and the totals of the view row
detailsFail ==
    /\ \E sel \in BagToSet(detailReqs) :
         /\ detailReqs' = Answered(detailReqs, sel)
         /\ clientDetails' = <<FallbackOf(sel)>>
    /\ colErrors' = 1 - colErrors
    /\ UNCHANGED <<collections, colLoading, colFetches, selectedCollection, paymentAmount,
                   paymentMethod, rpcs, colAlert, payCalls>>
    /\ UNCHANGED notCollections

(***************************************************************************)
(* UsersManager: the team list and its deletions                           *)
(***************************************************************************)
MaxDeletes == 2

\* the rows of profiles, in the order of their names
Team ==
    <<[id |-> "a1", role |-> "ADMIN"],
      [id |-> "u1", role |-> "COLLECTOR"],
      [id |-> "u2", role |-> "COLLECTOR"],
      [id |-> "u3", role |-> "COLLECTOR"]>>
TeamIds == {Team[k].id : k \in 1..Len(Team)}

\* the rows the select of fetchTeam returns from a table
TeamOf(table) == SelectSeq(Team, LAMBDA u : u.id \in table)

\* users.filter(u => u.id !== id)
FilterOut(list, id) == SelectSeq(list, LAMBDA u : u.id # id)

\* DeleteShown without the role test
DeleteShownAnyRole(u, cur) == cur # u.id

\* the card of u carries the delete button
DeleteShown(u, cur) == u.role = "COLLECTOR" /\ cur # u.id

UsersInit ==
    /\ users = <<>>
    /\ umLoading = TRUE
    /\ delReqs = EmptyBag
    /\ umAlert = "none"
    /\ lastConfirm = [n |-> 0, ok |-> FALSE]
    /\ profilesTable = TeamIds

\* fetchTeam: the response arrives with the rows of profiles
fetchTeamOk ==
    /\ umLoading
    /\ users' = TeamOf(profilesTable)
    /\ umLoading' = FALSE
    /\ UNCHANGED <<delReqs, umAlert, lastConfirm, profilesTable>>
    /\ UNCHANGED notUsers

\* fetchTeam: the response is an error (console.error only)
fetchTeamFail ==
    /\ umLoading
    /\ umLoading' = FALSE
    /\ UNCHANGED <<users, delReqs, umAlert, lastConfirm, profilesTable>>
    /\ UNCHANGED notUsers

\* the delete button of a card: handleDeleteUser up to its await
handleDeleteUser ==
    /\ ~umLoading
    /\ InFlight(delReqs) < MaxDeletes
    /\ \E k \in 1..Len(users), answer \in BOOLEAN :
         /\ DeleteShown(users[k], user)
         /\ lastConfirm' = [n |-> 1 - lastConfirm.n, ok |-> answer]
         /\ delReqs' = IF answer THEN Issued(delReqs, [id |-> users[k].id, users |-> users])
                       ELSE delReqs
    /\ UNCHANGED <<users, umLoading, umAlert, profilesTable>>
    /\ UNCHANGED notUsers

\* the delete returns without error: the row is gone, and the list becomes
\* the list the handler captured, without the id
deleteOk ==
    /\ \E r \in BagToSet(delReqs) :
         /\ delReqs' = Answered(delReqs, r)
         /\ profilesTable' = profilesTable \ {r.id}
         /\ users' = FilterOut(r.users, r.id)
    /\ UNCHANGED <<umLoading, umAlert, lastConfirm>>
    /\ UNCHANGED notUsers

\* the delete returns an error: console.error and the alert of the catch
deleteFail ==
    /\ \E r \in BagToSet(delReqs) : delReqs' = Answered(delReqs, r)
    /\ umAlert' = "deleteError"
    /\ UNCHANGED <<users, umLoading, lastConfirm, profilesTable>>
    /\ UNCHANGED notUsers

(***************************************************************************)
(* Specifications                                                          *)
(***************************************************************************)
Init == LoansInit /\ LateInit /\ LoginInit /\ CollectionsInit /\ UsersInit

LoansNext ==
    \/ authChange
    \/ fetchClientsOk
    \/ fetchClientsFail
    \/ setClient
    \/ setCapital
    \/ setInterestRate
    \/ setInstallmentsCount
    \/ handleCreateLoan
    \/ insertOk
    \/ insertFail

LateNext ==
    \/ tick
    \/ fetchLateOk
    \/ fetchLateFail
    \/ setFilter
    \/ sendWhatsApp

\* the loan form alone, and the delinquency list alone
LoansSpec == Init /\ [][LoansNext]_vars
LateSpec == Init /\ [][LateNext]_vars

LoginNext ==
    \/ toggleMode
    \/ setShowAdminCode
    \/ setAdminCode
    \/ handleSubmit
    \/ signInFail
    \/ signInOk
    \/ signInNoUser
    \/ profileFail
    \/ profileOk
    \/ signUpFail
    \/ signUpNoUser
    \/ signUpOk
    \/ profileInsertOk
    \/ profileInsertFail

\* the login page alone
LoginSpec == Init /\ [][LoginNext]_vars

CollectionsNext ==
    \/ authChange
    \/ fetchCollectionsOk
    \/ fetchCollectionsFail
    \/ selectCollection
    \/ closeModal
    \/ setPaymentMethod
    \/ setPaymentAmount
    \/ handlePayment
    \/ rpcOk
    \/ rpcFail
    \/ detailsOk
    \/ detailsFail

\* the daily collection list alone
CollectionsSpec == Init /\ [][CollectionsNext]_vars

UsersNext ==
    \/ authChange
    \/ fetchTeamOk
    \/ fetchTeamFail
    \/ handleDeleteUser
    \/ deleteOk
    \/ deleteFail

\* the team list alone
UsersSpec == Init /\ [][UsersNext]_vars

(***************************************************************************)
(* Properties of the amortization computation (LoansSpec)                  *)
(***************************************************************************)
\* the inputs of the preview, as the form's fields parse
FormP == parseFloat(newLoan.capital)
FormR == parseFloat(newLoan.interest_rate)
FormN == parseInt(newLoan.installments_count)

\* P >= 0, R >= 0 and N >= 1
InDomain(P, R, N) == Geq(P, Whole(0)) /\ Geq(R, Whole(0)) /\ Geq(N, Whole(1))

\* a count that is 0 or negative
NonPositive(N) == IsFinite(N) /\ ~Geq(N, Whole(1))

\* a value of the number type: finite, NaN or an infinity
IsNumberValue(x) == x.k \in {"num", "NaN", "Infinity"}

\* P * R / 100 and P + P * R / 100
InterestOf(P, R) == Div(Mul(P, R), Whole(100))
AmountOf(P, R) == Add(P, Div(Mul(P, R), Whole(100)))

\* C1: for every principal P >= 0, rate R >= 0 and count N >= 1 the preview
\* and handleCreateLoan both compute totalInterest = P * R / 100 and
\* totalAmount = P + P * R / 100.
C1_InterestAndAmount ==
    /\ InDomain(FormP, FormR, FormN) =>
          /\ preview.totalInterest = InterestOf(FormP, FormR)
          /\ preview.totalAmount = AmountOf(FormP, FormR)
    /\ \A i \in 1..Len(calc) :
          InDomain(calc[i].capital, calc[i].rate, calc[i].count) =>
             /\ calc[i].totalInterest = InterestOf(calc[i].capital, calc[i].rate)
             /\ calc[i].totalAmount = AmountOf(calc[i].capital, calc[i].rate)

\* C1 witness: handleCreateLoan runs on P = 1000, R = 10, N = 24 and has
\* computed totalInterest 100 and totalAmount 1100, as the preview has.
C1_Witness ==
    /\ calc # <<>>
    /\ calc[1].capital = Whole(1000)
    /\ calc[1].rate = Whole(10)
    /\ calc[1].count = Whole(24)
    /\ calc[1].totalInterest = Whole(100)
    /\ calc[1].totalAmount = Whole(1100)
    /\ preview.totalInterest = Whole(100)
    /\ preview.totalAmount = Whole(1100)

\* C2: when the installment count is 0 or negative the computation fails
\* before dividing: neither the preview nor handleCreateLoan yields a number
\* (finite, Infinity or NaN) as installmentValue.
C2_NonPositiveCountRejected ==
    /\ NonPositive(FormN) => ~IsNumberValue(preview.installmentValue)
    /\ \A i \in 1..Len(calc) :
          NonPositive(calc[i].count) => ~IsNumberValue(calc[i].installmentValue)

\* C8: a field text that does not parse to a finite number is rejected before
\* any arithmetic: the preview yields no number from it, handleCreateLoan does
\* not run on it, and no NaN or Infinity is in the preview or in the row sent.
C8_UnparsableInputRejected ==
    /\ (~IsFinite(FormP) \/ ~IsFinite(FormR) \/ ~IsFinite(FormN)) =>
          /\ ~IsNumberValue(preview.totalInterest)
          /\ ~IsNumberValue(preview.totalAmount)
          /\ ~IsNumberValue(preview.installmentValue)
    /\ IsFinite(preview.totalInterest)
    /\ IsFinite(preview.totalAmount)
    /\ IsFinite(preview.installmentValue)
    /\ \A i \in 1..Len(calc) :
          IsFinite(calc[i].capital) /\ IsFinite(calc[i].rate) /\ IsFinite(calc[i].count)
    /\ \A i \in 1..Len(request) :
          /\ IsFinite(request[i].capital)
          /\ IsFinite(request[i].interest_rate)
          /\ IsFinite(request[i].installments_count)

\* C9: for every principal P >= 0, rate R >= 0 and count N >= 1 the equal
\* installments sum back to the total: installmentValue * N = totalAmount, in
\* the preview and in handleCreateLoan.
C9_InstallmentsSumToTotal ==
    /\ InDomain(FormP, FormR, FormN) =>
          /\ Mul(preview.installmentValue, FormN) = preview.totalAmount
          /\ preview.totalAmount = AmountOf(FormP, FormR)
    /\ \A i \in 1..Len(calc) :
          InDomain(calc[i].capital, calc[i].rate, calc[i].count) =>
             Mul(calc[i].installmentValue, calc[i].count) = calc[i].totalAmount

\* C9 witness: the form holds 1000, 10 and 24; the preview shows 1100 in 24
\* installments of 1100 / 24 = 275 / 6 (about 45.8333).
C9_Witness ==
    /\ FormP = Whole(1000)
    /\ FormR = Whole(10)
    /\ FormN = Whole(24)
    /\ preview.totalAmount = Whole(1100)
    /\ preview.installmentValue = Num(275, 6)
    /\ calc # <<>>
    /\ calc[1].installmentValue = Num(275, 6)

\* C13: for a zero interest rate totalInterest is 0 and totalAmount is the
\* principal, for every finite principal and every count, in the preview and
\* in handleCreateLoan.
C13_ZeroRateNoInterest ==
    /\ (FormR = Whole(0) /\ IsFinite(FormP)) =>
          /\ preview.totalInterest = Whole(0)
          /\ preview.totalAmount = FormP
    /\ \A i \in 1..Len(calc) :
          (calc[i].rate = Whole(0) /\ IsFinite(calc[i].capital)) =>
             /\ calc[i].totalInterest = Whole(0)
             /\ calc[i].totalAmount = calc[i].capital

\* C13 witness: the form holds capital 1000 and rate 0; the preview and the
\* running handleCreateLoan both have totalAmount 1000.
C13_Witness ==
    /\ FormR = Whole(0)
    /\ FormP = Whole(1000)
    /\ preview.totalAmount = Whole(1000)
    /\ calc # <<>>
    /\ calc[1].rate = Whole(0)
    /\ calc[1].totalAmount = Whole(1000)

\* the fields of a loans row: the loan's terms
LoanTermFields ==
    {"client_id", "capital", "interest_rate", "payment_type", "installments_count",
     "start_date", "late_fee_enabled", "status", "created_by"}

\* C15: the row sent on creation holds the loan's terms only (client,
\* capital, rate, payment type, count, start date, late-fee flag, status,
\* creator): none of totalInterest, totalAmount, installmentValue is in it.
C15_DerivedFiguresNotPersisted ==
    \A i \in 1..Len(request) :
        /\ DOMAIN request[i] = LoanTermFields
        /\ request[i].capital = calc[i].capital
        /\ request[i].interest_rate = calc[i].rate
        /\ request[i].installments_count = calc[i].count
        /\ request[i].status = "ACTIVE"
        /\ request[i].created_by \in UserIds

\* C15 witness: an insert is in flight for capital 1000 at 10 % while the
\* handler holds the derived totalAmount 1100.
C15_Witness ==
    /\ request # <<>>
    /\ request[1].capital = Whole(1000)
    /\ calc[1].totalAmount = Whole(1100)
    /\ calc[1].installmentValue = Num(275, 6)

\* C16: at submission handleCreateLoan computes, from the form's fields, the
\* capital, rate and count the preview on screen uses.
C16_PreviewMatchesSubmission ==
    [][(calc = <<>> /\ calc' # <<>>) =>
          /\ calc'[1].capital = preview.capital
          /\ calc'[1].rate = preview.rate
          /\ calc'[1].count = preview.count]_vars

(***************************************************************************)
(* Properties of the delinquency list (LateSpec)                           *)
(***************************************************************************)
Rows == 1..Len(view.rows)

\* the quotient of a by b rounded toward zero
TruncDiv(a, b) == IF a >= 0 THEN a \div b ELSE -((-a) \div b)

\* the order CURRENT < WARNING < CRITICAL
Rank(tier) == IF tier = "CURRENT" THEN 0 ELSE IF tier = "WARNING" THEN 1 ELSE 2

\* the entry k of latePayments has a row on screen
Listed(k) == \E i \in Rows : view.rows[i].clientId = latePayments[k].clientId

\* C3: daysLate is >= 0 for every due date D <= now, and the value used to
\* filter and to classify an entry whose due date is after now is 0.
C3_DaysLateNeverNegative ==
    \A i \in Rows :
        LET r == view.rows[i]
            due == DateGetTime(r.oldestDueDate)
        IN  /\ due <= view.filterAt => r.filterDays >= 0
            /\ due <= view.at => r.days >= 0
            /\ due > view.filterAt => r.filterDays = 0
            /\ due > view.at => r.days = 0

\* C4: daysLate is (now - dueDate) / 1 day truncated toward zero, so that a
\* due date less than one day after now gives 0.
C4_DaysLateTruncates ==
    \A i \in Rows :
        LET r == view.rows[i]
            due == DateGetTime(r.oldestDueDate)
        IN  /\ r.days = TruncDiv(view.at - due, DayLength)
            /\ r.filterDays = TruncDiv(view.filterAt - due, DayLength)

\* C5: a row is shown CRITICAL exactly when daysLate >= 30, WARNING exactly
\* when 7 <= daysLate < 30 and CURRENT otherwise.
C5_TierBoundaries ==
    \A i \in Rows :
        LET r == view.rows[i]
        IN  /\ r.tier = "CRITICAL" <=> r.days >= 30
            /\ r.tier = "WARNING" <=> (7 <= r.days /\ r.days < 30)
            /\ r.tier = "CURRENT" <=> r.days < 7

\* C5 witness: the screen shows the four boundary values of the example, a
\* row at exactly 30 days as CRITICAL beside a row at exactly 7 as WARNING,
\* or a row at 29 as WARNING beside a row at 6 as CURRENT.
C5_Witness ==
    \E i, j \in Rows :
        /\ view.rows[i].days = 30
        /\ view.rows[i].tier = "CRITICAL"
        /\ view.rows[j].days = 7
        /\ view.rows[j].tier = "WARNING"

\* C6: an entry is listed under the selected threshold t in {0, 3, 7, 30} if
\* and only if t = 0 or its daysLate, as the filter computed it, is >= t.
C6_FilterThreshold ==
    /\ filter \in {0, 3, 7, 30}
    /\ ~lateLoading =>
          \A k \in 1..Len(latePayments) :
              Listed(k) <=>
                  \/ filter = 0
                  \/ getDaysLate(latePayments[k].oldestDueDate, view.filterAt) >= filter

\* C6 witness: under +3 DIAS an entry at exactly 3 days is listed and another
\* entry, below 3 days, is not.
C6_Witness ==
    /\ filter = 3
    /\ ~lateLoading
    /\ \E i \in Rows : view.rows[i].filterDays = 3
    /\ \E k \in 1..Len(latePayments) : ~Listed(k)

\* C7: two evaluations of daysLate for the same due date agree: the one that
\* filtered a row with the one that displays it, and the one displayed with
\* the one sendWhatsApp puts in the message.  (The amortization figures are
\* operators of the form's fields alone, CreateLoanCalc and PreviewCalc: they
\* read no state besides their argument.)
C7_SameInputsSameDays ==
    /\ \A i \in Rows : view.rows[i].filterDays = view.rows[i].days
    /\ \A m \in 1..Len(waMessage) : \A i \in Rows :
          view.rows[i].clientId = waMessage[m].clientId =>
              waMessage[m].days = view.rows[i].days

\* C10: the tier is monotonic in daysLate: of two rows, the one with no fewer
\* days late has no lower tier in the order CURRENT < WARNING < CRITICAL.
C10_TierMonotonic ==
    \A i, j \in Rows :
        view.rows[i].days <= view.rows[j].days =>
            Rank(view.rows[i].tier) <= Rank(view.rows[j].tier)

\* C10 witness: the screen shows a WARNING row and, with more days late, a
\* CRITICAL row.
C10_Witness ==
    \E i, j \in Rows :
        /\ view.rows[i].days < view.rows[j].days
        /\ view.rows[i].tier = "WARNING"
        /\ view.rows[j].tier = "CRITICAL"

\* the values of the filter buttons: TODOS, +3 DIAS, +7 DIAS, +30 DIAS
FilterValues == {0, 3, 7, 30}

\* C11: the 3-day threshold is used by the filter only: a row with
\* 3 <= daysLate < 7 matches the +3 filter and is displayed CURRENT, and the
\* tier of an entry is the same under every filter that lists it.
C11_ThreeDaysOnlyFilters ==
    /\ \A i \in Rows :
          (3 <= view.rows[i].days /\ view.rows[i].days < 7) =>
              /\ MatchesFilter(view.rows[i].days, 3)
              /\ view.rows[i].tier = "CURRENT"
    /\ \A f \in FilterValues :
          LET other == Render(latePayments, f, lateLoading, view.filterAt, view.at).rows
          IN  \A i \in Rows : \A j \in 1..Len(other) :
                  other[j].clientId = view.rows[i].clientId =>
                      other[j].tier = view.rows[i].tier

\* C11 witness: +3 DIAS is selected and lists a row at exactly 3 days, shown
\* CURRENT.
C11_Witness ==
    /\ filter = 3
    /\ \E i \in Rows :
          /\ view.rows[i].filterDays = 3
          /\ view.rows[i].days = 3
          /\ view.rows[i].tier = "CURRENT"

\* C14: the selected filter starts at 0, is always one of 0, 3, 7, 30, and
\* changes only while the buttons are on screen, to one of their values.
C14_FourWayFilter ==
    /\ filter = 0
    /\ [](filter \in FilterValues)
    /\ [][filter' # filter => (~lateLoading /\ filter' \in FilterValues)]_vars

\* C14 witness: +30 DIAS has been pressed.
C14_Witness == filter = 30 /\ ~lateLoading


(***************************************************************************)
(* Claims about LoginPage                                                  *)
(***************************************************************************)
Last(q) == q[Len(q)]
LoginFailures == {"signInFail", "profileFail"}

\* C17: in login mode login(user) is called only after signInWithPassword
\* succeeded and then the profile fetch succeeded, in that order; when either
\* fails, the step that handles the failure sets an error message and calls
\* login not at all, with no fallback to the auth metadata.
C17_LoginOnlyAfterProfile ==
    /\ [](loginCall # <<>> <=> steps = <<"signInOk", "profileOk", "login">>)
    /\ [](\A k \in 1..Len(steps) :
            steps[k] = "login" => (k = 3 /\ steps[1] = "signInOk" /\ steps[2] = "profileOk"))
    /\ [][(steps' # steps /\ steps' # <<>> /\ Last(steps') \in LoginFailures)
            => (error' # "" /\ loginCall' = <<>> /\ ~loginLoading')]_vars
    /\ []((steps # <<>> /\ \E k \in 1..Len(steps) : steps[k] \in LoginFailures)
            => loginCall = <<>>)

\* a login went through, and another submit failed at the profile fetch
C17_Witness ==
    /\ steps = <<"signInOk", "profileFail">>
    /\ error = "profileError"
    /\ loginCall = <<>>

\* C18: a sign-up is created with role ADMIN exactly when, at submit time, the
\* admin checkbox is checked and the admin code field holds the secret; in
\* every other case the role is COLLECTOR; and the profile row carries the
\* same role as the auth metadata.
C18_AdminOnlyWithCheckedCode ==
    /\ [][(lpc = "idle" /\ lpc' = "signUp")
            => (/\ signUpCall' # <<>>
                /\ signUpCall'[1].role \in Roles
                /\ signUpCall'[1].role = "ADMIN"
                     <=> (showAdminCode /\ adminCode = "admin123"))]_vars
    /\ [](profileRow # <<>>
            => (signUpCall # <<>> /\ profileRow[1].role = signUpCall[1].role))

\* an ADMIN sign-up reached the profile insert
C18_Witness ==
    /\ profileRow # <<>>
    /\ profileRow[1].role = "ADMIN"
    /\ signUpCall[1].role = "ADMIN"

\* a correct code typed, the checkbox then unchecked, and the sign-up submitted
C18_UncheckedWitness ==
    /\ lpc = "signUp"
    /\ ~showAdminCode
    /\ adminCode = "admin123"
    /\ signUpCall[1].role = "COLLECTOR"

(***************************************************************************)
(* Claims about DailyCollections                                           *)
(***************************************************************************)
\* a payment of type t passes the checks of handlePayment
CanPay(t) ==
    /\ selectedCollection # <<>>
    /\ user # NoUser
    /\ LET amount == IF t = "FULL" THEN selectedCollection[1].pending_value
                     ELSE parseFloat(paymentAmount)
       IN  ~IsNaN(amount) /\ Sign(amount) > 0

\* the call the claim expects from a payment of type t
ExpectedCall(t) ==
    [p_installment_id |-> selectedCollection[1].installmentId,
     p_amount |-> IF t = "FULL" THEN selectedCollection[1].pending_value
                  ELSE parseFloat(paymentAmount),
     p_type |-> t,
     p_method |-> paymentMethod,
     p_created_by |-> user]

\* C19: handlePayment issues the register_payment_final call only when a
\* collection is selected, a user is logged in and the amount is a number
\* above 0; the amount sent is the pending_value of the collection for FULL,
\* whatever was typed, and the parsed typed amount for PARTIAL and INTEREST;
\* otherwise no call is issued and no state changes; and no other step issues
\* a call.
C19_PaymentGuard ==
    /\ [][payCalls' # payCalls
            => /\ UNCHANGED <<user, collections, colLoading, colFetches, selectedCollection,
                              paymentAmount, paymentMethod, colAlert, colErrors>>
               /\ \/ \E t \in PayTypes : ~CanPay(t) /\ rpcs' = rpcs
                  \/ \E t \in PayTypes : CanPay(t) /\ rpcs' = rpcs (+) SetToBag({ExpectedCall(t)})]_vars
    /\ [][BagCardinality(rpcs') > BagCardinality(rpcs) => payCalls' # payCalls]_vars

\* a FULL payment of the pending 100 is in flight while the input holds 2.5
C19_Witness ==
    /\ paymentAmount = <<"2", ".", "5">>
    /\ \E p \in BagToSet(rpcs) : p.p_type = "FULL" /\ p.p_amount = Whole(100)

\* the calls in flight for one installment
CallsFor(id) ==
    LET S == {p \in BagToSet(rpcs) : p.p_installment_id = id}
    IN  IF S = {} THEN 0
        ELSE IF Cardinality(S) = 1 THEN CopiesIn(CHOOSE p \in S : TRUE, rpcs)
        ELSE 2

\* C20: while a register_payment_final call for an installment is in flight,
\* a further handlePayment does not issue a second one: at most one payment
\* registration is in flight per installment.
C20_OnePaymentInFlight ==
    \A id \in {"i1", "i2"} : CallsFor(id) <= 1

\* a remote call failed: fetchCollections logged an error, or a payment call
\* was answered and the list was not refetched
FailureStep ==
    \/ colErrors' # colErrors
    \/ BagCardinality(rpcs') < BagCardinality(rpcs) /\ colFetches' = colFetches

\* C12: every failure of a remote call is surfaced to the user as an alert;
\* none is only logged.
C12_RemoteFailuresAlerted ==
    [][FailureStep => colAlert' = "error"]_vars

\* a payment call was answered
RpcAnswered == BagCardinality(rpcs') < BagCardinality(rpcs)

\* C21: when the payment RPC fails, the selected collection and the typed
\* amount are left as they are (the modal stays open), the list is not
\* refetched and an error alert is shown; only on success are the selection
\* and the amount cleared and the list refetched.
C21_FailureKeepsModal ==
    /\ [][RpcAnswered => colAlert' \in {"error", "success"}]_vars
    /\ [][(RpcAnswered /\ colAlert' = "error")
            => UNCHANGED <<selectedCollection, paymentAmount, paymentMethod, collections,
                           colLoading, colFetches>>]_vars
    /\ [][(RpcAnswered /\ colAlert' = "success")
            => (/\ selectedCollection' = <<>>
                /\ paymentAmount' = <<>>
                /\ colLoading'
                /\ colFetches' = colFetches + 1)]_vars
    /\ [][colFetches' > colFetches => (RpcAnswered /\ colAlert' = "success")]_vars

\* a payment failed: the alert is up, the modal still holds the collection
\* and the typed amount, and no fetch is under way
C21_Witness ==
    /\ colAlert = "error"
    /\ selectedCollection = <<ItemA>>
    /\ paymentAmount = <<"2", ".", "5">>
    /\ rpcs = EmptyBag
    /\ colFetches = 0
    /\ ~colLoading

\* the profiles insert of a sign-up has just returned
InsertReturned ==
    /\ steps' # steps
    /\ steps' # <<>>
    /\ Last(steps') \in {"profileInsertOk", "profileInsertFail"}

\* C25: a failed profile insert after a successful signUp does not block the
\* sign-up: whether or not the insert failed, the form switches to login mode
\* and shows the success message.
C25_InsertFailureNotBlocking ==
    /\ [][InsertReturned
            => (/\ steps'[1] = "signUpOk"
                /\ isLogin'
                /\ error' = (IF signUpCall[1].role = "ADMIN" THEN "createdAdmin" ELSE "created")
                /\ ~loginLoading')]_vars
    /\ [][(lpc = "signUp" /\ steps' # steps /\ Last(steps') = "signUpOk") => lpc' = "insert"]_vars
    /\ [][(lpc = "insert" /\ lpc' # "insert") => InsertReturned]_vars

\* a sign-up whose profile insert failed ended in login mode with the message
C25_Witness ==
    /\ steps = <<"signUpOk", "profileInsertFail">>
    /\ isLogin
    /\ error = "created"

\* C22: whenever no client-details request is in flight, clientDetails is
\* null if no collection is selected, and otherwise holds the totals fetched
\* for the selected collection or its fallback totals, never those of a
\* collection selected before.
C22_DetailsMatchSelection ==
    detailReqs = EmptyBag
        => IF selectedCollection = <<>> THEN clientDetails = <<>>
           ELSE clientDetails \in {<<SummaryOf(selectedCollection[1].clientName)>>,
                                   <<FallbackOf(selectedCollection[1])>>}

(***************************************************************************)
(* Claims about UsersManager                                               *)
(***************************************************************************)
\* the ids whose row has been deleted
DeletedIds == TeamIds \ profilesTable

\* C23: after two or more deletions of distinct users have all succeeded, in
\* any interleaving of their remote calls, the local users list holds none of
\* the deleted users.
C23_DeletedUsersGone ==
    (delReqs = EmptyBag /\ Cardinality(DeletedIds) >= 2)
        => \A k \in 1..Len(users) : users[k].id \notin DeletedIds

\* a delete call has just been issued
DeleteIssued == BagCardinality(delReqs') > BagCardinality(delReqs)

\* C24: a profile deletion is started only for a user of the list whose role
\* is COLLECTOR and who is not the logged-in user; an ADMIN profile or the
\* user's own profile is never the target of a delete call; and no delete
\* call is issued unless the confirmation was accepted.
C24_DeleteOnlyOtherCollectors ==
    /\ [][DeleteIssued
            => \E r \in BagToSet(delReqs') :
                 /\ delReqs' = delReqs (+) SetToBag({r})
                 /\ \E k \in 1..Len(users) :
                      users[k].id = r.id /\ users[k].role = "COLLECTOR"
                 /\ r.id # user
                 /\ lastConfirm'.n # lastConfirm.n
                 /\ lastConfirm'.ok]_vars
    /\ [][(lastConfirm'.n # lastConfirm.n /\ ~lastConfirm'.ok) => delReqs' = delReqs]_vars
    /\ [](\A r \in BagToSet(delReqs) : r.id # "a1")

\* u1 is logged in, the list shows the admin, u1 and the others, and a
\* confirmed deletion of u2 is under way
C24_Witness ==
    /\ user = "u1"
    /\ users = Team
    /\ lastConfirm.ok
    /\ \E r \in BagToSet(delReqs) : r.id = "u2"
====
